---- MODULE Spec2Model ----
(***************************************************************************)
(* Face-swap microservice (face-swap-service/app.py).                      *)
(*                                                                         *)
(* Units.  The floating point quantities of the source are modelled by     *)
(* exact fixed point integers:                                             *)
(*   det_score   thousandths           (998 stands for 0.998)              *)
(*   yaw         tenths of a degree    (149 stands for 14.9)               *)
(*   laplacian variance, brightness    whole numbers                       *)
(*   raw score   hundredths of a point (9000 stands for 90.00)             *)
(*   report score (round(score, 1))    tenths of a point (900 = 90.0)      *)
(***************************************************************************)
EXTENDS Integers, Sequences, FiniteSets, TLC

VARIABLES
    face_analyzer,   \* global model handle, app.py:34
    face_swapper,    \* global model handle, app.py:35
    file,            \* content of MODEL_DIR/inswapper_128.onnx on disk
    pc,              \* position of the process in startup / initialize_models
    mode,            \* "wsgi" (imported by Gunicorn) or "main" (python app.py)
    mirror,          \* index of the download_urls loop
    downloaded,      \* local flag of initialize_models
    tried,           \* history: mirrors contacted by the current call, with outcome
    checked,         \* history: what model_path.exists() saw in the current call
    returns,         \* history: return values of initialize_models in this process
    runs,            \* number of process startups so far
    health,          \* last /health response of this process
    request,         \* last request served (with the network's answers)
    response,        \* last response sent
    collected,       \* history: select-best-photo's results before the sort
    fetchLog,        \* history: URLs passed to download_image by the request
    detectLog,       \* history: images passed to face_analyzer.get by the request
    swapLog          \* history: calls of face_swapper.get by the request

bootVars == <<face_analyzer, face_swapper, file, pc, mode, mirror, downloaded,
              tried, checked, returns, runs, health>>
serveVars == <<request, response, collected, fetchLog, detectLog, swapLog>>
vars == <<face_analyzer, face_swapper, file, pc, mode, mirror, downloaded,
          tried, checked, returns, runs, health,
          request, response, collected, fetchLog, detectLog, swapLog>>

None == "None"
Model == "model"

\* no response sent yet
NoResponse == [status |-> 0]

----------------------------------------------------------------------------
(* Bounds *)

MaxFaces == 2     \* faces a detection returns
MaxUrls == 3      \* length of image_urls
MaxRuns == 3      \* process startups

----------------------------------------------------------------------------
(* Small helpers *)

Min(a, b) == IF a < b THEN a ELSE b

Abs(a) == IF a < 0 THEN -a ELSE a

\* round(x, 1) of a value given in hundredths; the result is in tenths.
\* Python rounds an exact tie to the even neighbour.
Round1(h) ==
    LET q == h \div 10
        r == h % 10
    IN IF r < 5 THEN q
       ELSE IF r > 5 THEN q + 1
       ELSE IF q % 2 = 0 THEN q ELSE q + 1

\* round(num / den, 3) in thousandths, den > 0, ties to even.
Round3Ratio(num, den) ==
    LET q == (num * 1000) \div den
        r == (num * 1000) % den
    IN IF 2 * r < den THEN q
       ELSE IF 2 * r > den THEN q + 1
       ELSE IF q % 2 = 0 THEN q ELSE q + 1

----------------------------------------------------------------------------
(* Face Model: face_analyzer.get(image).  An image carries what the        *)
(* detector finds in it (image.faces, in the detector's order) and the     *)
(* pixel statistics the scorer reads.                                      *)

\* face_analyzer.get raises when the handle was never set (None has no .get)
DetectRaises == face_analyzer = None

Detect(image) == image.faces

\* the detection calls a request made, as a history
Detected(images) == IF DetectRaises THEN <<>> ELSE images

----------------------------------------------------------------------------
(* Quality Scorer: analyze_face_quality *)

\* pose = face.pose if hasattr(face, 'pose') else [0, 0, 0]
\* yaw = abs(pose[0]) if len(pose) > 0 else 0
Yaw(face) ==
    IF face.pose.kind = "absent" THEN 0
    ELSE IF Len(face.pose.vals) > 0 THEN Abs(face.pose.vals[1]) ELSE 0

\* len(None) raises TypeError
YawRaises(face) == face.pose.kind = "none"

\* 1. confidence * 30
ConfidencePoints(face) == face.det_score * 3

\* 2. yaw bands
YawPoints(yaw) ==
    IF yaw < 150 THEN 2500
    ELSE IF yaw < 300 THEN 1500
    ELSE 500

\* 3. resolution = min(width, height)
ResolutionPoints(image) ==
    LET resolution == Min(image.width, image.height)
    IN IF resolution >= 1024 THEN 1000
       ELSE IF resolution >= 800 THEN 700
       ELSE 300

FaceArea(face) == (face.bbox[3] - face.bbox[1]) * (face.bbox[4] - face.bbox[2])

ImageArea(image) == image.width * image.height

\* 4. face_ratio = face_area / image_area against 0.15 and 0.08
FaceSizePoints(face, image) ==
    IF FaceArea(face) * 100 > 15 * ImageArea(image) THEN 1000
    ELSE IF FaceArea(face) * 100 > 8 * ImageArea(image) THEN 600
    ELSE 200

\* 5. sharpness = min(laplacian_var / 500, 1.0); sharpness * 15
SharpnessPoints_uncapped(image) == image.laplacian_var * 3

SharpnessPoints(image) == Min(image.laplacian_var * 3, 1500)

\* 6. brightness bands
BrightnessPoints(image) ==
    IF 80 < image.brightness /\ image.brightness < 180 THEN 1000
    ELSE IF 60 < image.brightness /\ image.brightness < 200 THEN 600
    ELSE 200

RawScore(face, image) ==
    ConfidencePoints(face) + YawPoints(Yaw(face)) + ResolutionPoints(image)
    + FaceSizePoints(face, image) + SharpnessPoints(image) + BrightnessPoints(image)

NoFaceReport == [score |-> 0, face_detected |-> FALSE, error |-> "No face detected"]

ExceptionReport == [score |-> 0, face_detected |-> FALSE, error |-> "exception"]

FaceReport(faces, image) ==
    LET face == faces[1]
    IN [score |-> Round1(RawScore(face, image)),
        face_detected |-> TRUE,
        confidence |-> face.det_score,
        yaw_angle |-> Yaw(face),
        front_facing |-> Yaw(face) < 150,
        resolution |-> <<image.width, "x", image.height>>,
        face_size_ratio |-> Round3Ratio(FaceArea(face), ImageArea(image)),
        sharpness |-> Min(image.laplacian_var * 2, 1000),
        brightness |-> image.brightness,
        num_faces |-> Len(faces)]

analyze_face_quality(image) ==
    IF DetectRaises THEN ExceptionReport
    ELSE IF Detect(image) = <<>> THEN NoFaceReport
    ELSE IF YawRaises(Detect(image)[1]) THEN ExceptionReport
    ELSE FaceReport(Detect(image), image)

----------------------------------------------------------------------------
(* Bootstrap: module import, initialize_models, __main__                   *)

download_urls == <<"github.com/facefusion", "huggingface.co/ezioruan", "huggingface.co/CountFloyd">>

Modes == {"wsgi", "main"}

\* What one pass of the loop body can do:
\*   "get_failed"    requests.get / raise_for_status / open raised, file untouched
\*   "write_failed"  open(model_path, 'wb') created or truncated the file and
\*                   iter_content / write raised before the last chunk
\*   "ok"            every chunk was written
MirrorOutcomes == {"get_failed", "write_failed", "ok"}

\* model_path.exists()
Exists(f) == f # "absent"

\* Where the process goes when initialize_models returns v: the import-time
\* call (line 273) only logs; under __main__ a second call follows (line 521)
\* and a False there exits the process.
AfterReturn(v) ==
    IF mode = "main" /\ returns = <<>> THEN "call"
    ELSE IF mode = "main" /\ ~v THEN "exited"
    ELSE "serving"

Return(v) ==
    /\ returns' = Append(returns, v)
    /\ pc' = AfterReturn(v)

\* lines 46-55 (and 97-99 when FaceAnalysis or prepare raises)
LoadAnalyzer ==
    /\ pc = "call"
    /\ tried' = <<>>
    /\ checked' = "unchecked"
    /\ \/ /\ face_analyzer' = Model
          /\ pc' = "check"
          /\ UNCHANGED returns
       \/ /\ Return(FALSE)
          /\ UNCHANGED face_analyzer
    /\ UNCHANGED <<face_swapper, file, mode, mirror, downloaded, runs, health>>
    /\ UNCHANGED serveVars

\* lines 58-70
CheckCache ==
    /\ pc = "check"
    /\ checked' = file
    /\ IF Exists(file)
       THEN /\ pc' = "load"
            /\ UNCHANGED <<mirror, downloaded>>
       ELSE /\ pc' = "loop"
            /\ mirror' = 1
            /\ downloaded' = FALSE
    /\ UNCHANGED <<face_analyzer, face_swapper, file, mode, tried, returns, runs, health>>
    /\ UNCHANGED serveVars

\* the loop body without the break of line 82
TryMirror_nobreak ==
    /\ pc = "loop"
    /\ mirror <= Len(download_urls)
    /\ \E outcome \in MirrorOutcomes :
        /\ tried' = Append(tried, [url |-> download_urls[mirror], outcome |-> outcome])
        /\ file' = CASE outcome = "get_failed" -> file
                     [] outcome = "write_failed" -> "partial"
                     [] outcome = "ok" -> "complete"
        /\ downloaded' = (downloaded \/ outcome = "ok")
        /\ mirror' = mirror + 1
        /\ pc' = IF downloaded' /\ mirror = Len(download_urls) THEN "load" ELSE "loop"
    /\ UNCHANGED <<face_analyzer, face_swapper, mode, checked, returns, runs, health>>
    /\ UNCHANGED serveVars

\* lines 71-85: one pass of the loop body
TryMirror ==
    /\ pc = "loop"
    /\ mirror <= Len(download_urls)
    /\ \E outcome \in MirrorOutcomes :
        /\ tried' = Append(tried, [url |-> download_urls[mirror], outcome |-> outcome])
        /\ file' = CASE outcome = "get_failed" -> file
                     [] outcome = "write_failed" -> "partial"
                     [] outcome = "ok" -> "complete"
        /\ IF outcome = "ok"
           THEN /\ downloaded' = TRUE
                /\ pc' = "load"
                /\ UNCHANGED mirror
           ELSE /\ mirror' = mirror + 1
                /\ UNCHANGED <<downloaded, pc>>
    /\ UNCHANGED <<face_analyzer, face_swapper, mode, checked, returns, runs, health>>
    /\ UNCHANGED serveVars

\* lines 87-88 and 97-99: the loop ran out of mirrors
AllMirrorsFailed ==
    /\ pc = "loop"
    /\ mirror > Len(download_urls)
    /\ ~downloaded
    /\ Return(FALSE)
    /\ UNCHANGED <<face_analyzer, face_swapper, file, mode, mirror, downloaded,
                   tried, checked, runs, health>>
    /\ UNCHANGED serveVars

\* get_model with the result bound to a local name instead of the global
LoadSwapper_local ==
    /\ pc = "load"
    /\ \/ /\ file = "complete"
          /\ Return(TRUE)
       \/ Return(FALSE)
    /\ UNCHANGED <<face_analyzer, face_swapper, file, mode, mirror, downloaded,
                   tried, checked, runs, health>>
    /\ UNCHANGED serveVars

\* lines 90-95 (and 97-99 when get_model raises): a truncated file does not
\* load; a complete one loads unless the runtime raises
LoadSwapper ==
    /\ pc = "load"
    /\ \/ /\ file = "complete"
          /\ face_swapper' = Model
          /\ Return(TRUE)
       \/ /\ Return(FALSE)
          /\ UNCHANGED face_swapper
    /\ UNCHANGED <<face_analyzer, file, mode, mirror, downloaded,
                   tried, checked, runs, health>>
    /\ UNCHANGED serveVars

models_loaded == face_analyzer # None /\ face_swapper # None

\* lines 282-289
health_check ==
    /\ pc = "serving"
    /\ health' = [status |-> 200,
                  body |-> [status |-> "healthy",
                            service |-> "face-swap-service",
                            models_loaded |-> models_loaded]]
    /\ UNCHANGED <<face_analyzer, face_swapper, file, pc, mode, mirror, downloaded,
                   tried, checked, returns, runs>>
    /\ UNCHANGED serveVars

\* the process ends and a new one starts: globals are fresh (lines 34-35),
\* the cache directory is what the previous processes left
Restart ==
    /\ pc \in {"serving", "exited"}
    /\ runs < MaxRuns
    /\ runs' = runs + 1
    /\ face_analyzer' = None
    /\ face_swapper' = None
    /\ pc' = "call"
    /\ mode' \in Modes
    /\ returns' = <<>>
    /\ health' = NoResponse
    /\ mirror' = 0
    /\ downloaded' = FALSE
    /\ tried' = <<>>
    /\ checked' = "unchecked"
    /\ UNCHANGED file
    /\ UNCHANGED serveVars

NoRequest == [op |-> "none"]

ServeIdle ==
    /\ request = NoRequest
    /\ response = NoResponse
    /\ collected = <<>>
    /\ fetchLog = <<>>
    /\ detectLog = <<>>
    /\ swapLog = <<>>

InitBoot ==
    /\ face_analyzer = None
    /\ face_swapper = None
    /\ file \in {"absent", "complete"}
    /\ pc = "call"
    /\ mode \in Modes
    /\ mirror = 0
    /\ downloaded = FALSE
    /\ tried = <<>>
    /\ checked = "unchecked"
    /\ returns = <<>>
    /\ runs = 1
    /\ health = NoResponse
    /\ ServeIdle

NextBoot ==
    \/ LoadAnalyzer
    \/ CheckCache
    \/ TryMirror
    \/ AllMirrorsFailed
    \/ LoadSwapper
    \/ health_check
    \/ Restart

SpecBoot == InitBoot /\ [][NextBoot]_vars

----------------------------------------------------------------------------
(* Properties of the bootstrap *)

Last(s) == s[Len(s)]

AllFailed(t) == \A i \in DOMAIN t : t[i].outcome # "ok"

\* what InitServe starts from: a serving process holds no handle, the
\* detector only, or both
ServingHandlesOnly ==
    pc = "serving" =>
        \E h \in {<<None, None>>, <<Model, None>>, <<Model, Model>>} :
            face_analyzer = h[1] /\ face_swapper = h[2]

\* C7: /health answers 200 whatever the load state; whenever the most recent
\* initialize_models call returned True both handles are set and a /health
\* response reports models_loaded true; a /health response reports
\* models_loaded false only if some initialize_models call of the process
\* returned False.
C7_HealthReflectsBootstrap ==
    /\ health # NoResponse => health.status = 200
    /\ (returns # <<>> /\ Last(returns)) =>
          /\ face_analyzer # None
          /\ face_swapper # None
          /\ health # NoResponse => health.body.models_loaded
    /\ (health # NoResponse /\ ~health.body.models_loaded) =>
          \E i \in DOMAIN returns : ~returns[i]

\* a /health response of a process whose download failed on every mirror:
\* the detector is loaded, the swapper is not
C7_Witness ==
    /\ health # NoResponse
    /\ health.status = 200
    /\ ~health.body.models_loaded
    /\ face_analyzer = Model
    /\ returns = <<FALSE>>

\* C8: with the asset absent at the check, the mirrors are contacted one at
\* a time in the order of download_urls, a mirror is contacted only after
\* all earlier ones failed and none after a success, the swapper is loaded
\* only after a mirror succeeded, and the call returns False when all of
\* them failed; with a file present at the check no mirror is contacted.
C8_MirrorsInOrder ==
    /\ Len(tried) <= Len(download_urls)
    /\ \A i \in DOMAIN tried : tried[i].url = download_urls[i]
    /\ \A i \in DOMAIN tried : i < Len(tried) => tried[i].outcome # "ok"
    /\ tried # <<>> => checked = "absent"
    /\ (checked = "absent" /\ pc = "load") => (tried # <<>> /\ Last(tried).outcome = "ok")
    /\ (checked = "absent" /\ pc \notin {"loop", "load"} /\ AllFailed(tried)) =>
          /\ Len(tried) = Len(download_urls)
          /\ returns # <<>>
          /\ ~Last(returns)
          /\ face_swapper = None

\* two mirrors failed, the third delivered the asset
C8_Witness ==
    /\ checked = "absent"
    /\ Len(tried) = 3
    /\ tried[1].outcome # "ok"
    /\ tried[2].outcome # "ok"
    /\ tried[3].outcome = "ok"
    /\ pc = "load"

\* C10: a file that exists at the cache path when a bootstrap checks for it
\* is a complete asset; a download that failed while writing never leaves
\* a file that a later bootstrap takes as present.
C10_CachedFileIsComplete == checked # "partial"

----------------------------------------------------------------------------
(* Image Fetcher: download_image *)

\* cv2.imdecode returned None / download_image returned None
NoImage == [decoded |-> FALSE]

\* requests.get or raise_for_status raised
NetError == [kind |-> "error"]

\* the body of a 2xx answer, as OpenCV decodes it (NoImage when it cannot)
NetBytes(image) == [kind |-> "bytes", image |-> image]

\* lines 102-120
download_image(answer) ==
    IF answer.kind = "error" THEN NoImage ELSE answer.image

----------------------------------------------------------------------------
(* Responses *)

ErrorResponse(code, message) == [status |-> code, success |-> FALSE, error |-> message]

DataResponse(data) == [status |-> 200, success |-> TRUE, data |-> data]

----------------------------------------------------------------------------
(* POST /analyze-photo *)

\* lines 314-347; req.body.has_url: the body is an object with image_url
analyze_photo_response(req) ==
    IF ~req.body.has_url
    THEN ErrorResponse(400, "Missing image_url in request body")
    ELSE IF download_image(req.net[1]) = NoImage
    THEN ErrorResponse(400, "Failed to download or decode image")
    ELSE DataResponse(analyze_face_quality(download_image(req.net[1])))

analyze_photo_fetches(req) ==
    IF req.body.has_url THEN <<req.body.image_url>> ELSE <<>>

analyze_photo_detections(req) ==
    IF req.body.has_url /\ download_image(req.net[1]) # NoImage
    THEN Detected(<<download_image(req.net[1])>>)
    ELSE <<>>

----------------------------------------------------------------------------
(* POST /select-best-photo *)

\* the validation without the isinstance test of line 462
SelectValidation_noisinstance(body) ==
    IF body.kind = "null" \/ ~body.has_key THEN "missing"
    ELSE IF body.kind # "object" THEN "raise"
    ELSE IF Len(body.value.items) = 0 THEN "invalid"
    ELSE "ok"

\* lines 452-466.  req.body.kind is "null" (no JSON body, or a falsy one),
\* "object", or "array" (a JSON array or string that contains "image_urls",
\* whose subscript data['image_urls'] raises TypeError).
SelectValidation(body) ==
    IF body.kind = "null" \/ ~body.has_key THEN "missing"
    ELSE IF body.kind # "object" THEN "raise"
    ELSE IF body.value.type # "list" \/ Len(body.value.items) = 0 THEN "invalid"
    ELSE "ok"

\* analysis['url'] = url
WithUrl(analysis, url) ==
    [f \in DOMAIN analysis \cup {"url"} |-> IF f = "url" THEN url ELSE analysis[f]]

\* the loop appending a report also when download_image returned None
RECURSIVE CollectResults_all(_, _)
CollectResults_all(urls, net) ==
    IF urls = <<>> THEN <<>>
    ELSE LET n == Len(urls)
             before == CollectResults_all(SubSeq(urls, 1, n - 1), SubSeq(net, 1, n - 1))
             image == download_image(net[n])
         IN IF image # NoImage
            THEN Append(before, WithUrl(analyze_face_quality(image), urls[n]))
            ELSE Append(before, WithUrl(ExceptionReport, urls[n]))

\* lines 471-477: the results list after the loop
RECURSIVE CollectResults(_, _)
CollectResults(urls, net) ==
    IF urls = <<>> THEN <<>>
    ELSE LET n == Len(urls)
             before == CollectResults(SubSeq(urls, 1, n - 1), SubSeq(net, 1, n - 1))
             image == download_image(net[n])
         IN IF image # NoImage
            THEN Append(before, WithUrl(analyze_face_quality(image), urls[n]))
            ELSE before

\* insertion that lets a report overtake the reports of equal score
RECURSIVE InsertByScore_overtaking(_, _)
InsertByScore_overtaking(sorted, r) ==
    IF sorted = <<>> THEN <<r>>
    ELSE IF Head(sorted).score > r.score
    THEN <<Head(sorted)>> \o InsertByScore_overtaking(Tail(sorted), r)
    ELSE <<r>> \o sorted

\* insertion into ascending order
RECURSIVE InsertByScore_ascending(_, _)
InsertByScore_ascending(sorted, r) ==
    IF sorted = <<>> THEN <<r>>
    ELSE IF Head(sorted).score <= r.score
    THEN <<Head(sorted)>> \o InsertByScore_ascending(Tail(sorted), r)
    ELSE <<r>> \o sorted

\* r goes behind every report whose score is not smaller
RECURSIVE InsertByScore(_, _)
InsertByScore(sorted, r) ==
    IF sorted = <<>> THEN <<r>>
    ELSE IF Head(sorted).score >= r.score
    THEN <<Head(sorted)>> \o InsertByScore(Tail(sorted), r)
    ELSE <<r>> \o sorted

\* line 486: results.sort(key=score, reverse=True); list.sort is stable and
\* reverse=True keeps the original order of equal keys
RECURSIVE SortByScore(_)
SortByScore(results) ==
    IF results = <<>> THEN <<>>
    ELSE InsertByScore(SortByScore(SubSeq(results, 1, Len(results) - 1)),
                       results[Len(results)])

\* results[1:3], a slice: short lists give fewer
Slice1to3(results) == SubSeq(results, 2, Min(3, Len(results)))

\* lines 489-501
SelectData(sorted) ==
    [primary |-> sorted[1].url,
     fallbacks |-> IF Len(sorted) > 1
                   THEN [i \in DOMAIN Slice1to3(sorted) |-> Slice1to3(sorted)[i].url]
                   ELSE <<>>,
     scores |-> sorted]

SelectUrls(req) ==
    IF SelectValidation(req.body) = "ok" THEN req.body.value.items ELSE <<>>

select_best_photo_collected(req) == CollectResults(SelectUrls(req), req.net)

\* lines 451-508
select_best_photo_response(req) ==
    CASE SelectValidation(req.body) = "missing" ->
             ErrorResponse(400, "Missing image_urls in request body")
      [] SelectValidation(req.body) = "raise" ->
             ErrorResponse(500, "TypeError")
      [] SelectValidation(req.body) = "invalid" ->
             ErrorResponse(400, "image_urls must be a non-empty array")
      [] OTHER ->
             IF select_best_photo_collected(req) = <<>>
             THEN ErrorResponse(400, "No valid images found")
             ELSE DataResponse(SelectData(SortByScore(select_best_photo_collected(req))))

select_best_photo_fetches(req) == SelectUrls(req)

RECURSIVE DecodedImages(_)
DecodedImages(net) ==
    IF net = <<>> THEN <<>>
    ELSE IF download_image(Head(net)) # NoImage
    THEN <<download_image(Head(net))>> \o DecodedImages(Tail(net))
    ELSE DecodedImages(Tail(net))

select_best_photo_detections(req) ==
    Detected(DecodedImages(SubSeq(req.net, 1, Len(SelectUrls(req)))))

----------------------------------------------------------------------------
(* Swap Orchestrator: swap_face and POST /swap-face *)

NoResult == [swapped |-> FALSE]

\* face_swapper.get(target_image, target_face, source_face, paste_back=True)
SwapCall(image, target_face, source_face) ==
    [image |-> image, target_face |-> target_face, source_face |-> source_face,
     paste_back |-> TRUE]

\* both checks passed: lines 240-246
BothHaveFaces(target_image, source_image) ==
    Detect(target_image) # <<>> /\ Detect(source_image) # <<>>

\* the call with the two faces in each other's place
SwapCalls_crossed(target_image, source_image) ==
    IF DetectRaises \/ ~BothHaveFaces(target_image, source_image) \/ face_swapper = None
    THEN <<>>
    ELSE <<SwapCall(target_image, Detect(source_image)[1], Detect(target_image)[1])>>

\* lines 237-253: the calls swap_face makes on the swap model
SwapCalls(target_image, source_image) ==
    IF DetectRaises \/ ~BothHaveFaces(target_image, source_image) \/ face_swapper = None
    THEN <<>>
    ELSE <<SwapCall(target_image, Detect(target_image)[1], Detect(source_image)[1])>>

\* lines 235-260; swapper_ok: face_swapper.get returned an image
swap_face(target_image, source_image, swapper_ok) ==
    IF SwapCalls(target_image, source_image) = <<>> \/ ~swapper_ok
    THEN NoResult
    ELSE [swapped |-> TRUE, call |-> SwapCalls(target_image, source_image)[1]]

SwapFetched(req) ==
    /\ req.body.has_urls
    /\ download_image(req.net[1]) # NoImage
    /\ download_image(req.net[2]) # NoImage

\* lines 364-425
swap_face_response(req) ==
    IF ~req.body.has_urls
    THEN ErrorResponse(400, "Missing target_url or source_url in request body")
    ELSE IF ~SwapFetched(req)
    THEN ErrorResponse(400, "Failed to download images")
    ELSE IF swap_face(download_image(req.net[1]), download_image(req.net[2]),
                      req.swapper_ok) = NoResult
    THEN ErrorResponse(500, "Face swap failed - no faces detected or swap error")
    ELSE IF ~req.encode_ok
    THEN ErrorResponse(500, "Failed to encode result image")
    ELSE [status |-> 200, mimetype |-> "image/jpeg",
          image |-> swap_face(download_image(req.net[1]), download_image(req.net[2]),
                              req.swapper_ok)]

swap_face_fetches(req) ==
    IF req.body.has_urls THEN <<req.body.target_url, req.body.source_url>> ELSE <<>>

swap_face_detections(req) ==
    IF SwapFetched(req)
    THEN Detected(<<download_image(req.net[1]), download_image(req.net[2])>>)
    ELSE <<>>

swap_face_swaps(req) ==
    IF SwapFetched(req)
    THEN SwapCalls(download_image(req.net[1]), download_image(req.net[2]))
    ELSE <<>>

----------------------------------------------------------------------------
(* Inputs: what the clients send and what the network and the detector     *)
(* answer                                                                  *)

Face(det_score, pose, bbox) == [det_score |-> det_score, pose |-> pose, bbox |-> bbox]

PoseArray(yaw) == [kind |-> "array", vals |-> <<yaw, 0, 0>>]
PoseEmpty == [kind |-> "array", vals |-> <<>>]
PoseAbsent == [kind |-> "absent", vals |-> <<>>]
PoseNone == [kind |-> "none", vals |-> <<>>]

Img(faces, dims, laplacian_var, brightness) ==
    [decoded |-> TRUE, faces |-> faces, width |-> dims[1], height |-> dims[2],
     laplacian_var |-> laplacian_var, brightness |-> brightness]

ConfVals == {0, 995, 1000}
Poses == {PoseAbsent, PoseNone, PoseEmpty, PoseArray(-149), PoseArray(150),
          PoseArray(299), PoseArray(-300)}
Boxes == {<<10, 10, 410, 210>>, <<0, 0, 500, 300>>, <<100, 50, 600, 450>>}
Dims == {<<640, 480>>, <<1000, 1000>>, <<1024, 1024>>, <<2000, 800>>}
LaplacianVals == {0, 300, 2000}
BrightnessVals == {60, 61, 81, 179, 180, 200}

\* a second, third, ... face of a photo
ExtraFace == Face(400, PoseArray(450), <<0, 0, 50, 50>>)

FacesLedBy(first, n) == [i \in 1..n |-> IF i = 1 THEN first ELSE ExtraFace]

FaceLists ==
    {<<>>} \cup {FacesLedBy(Face(d, p, b), n) :
                    d \in ConfVals, p \in Poses, b \in Boxes, n \in 1..MaxFaces}

AnalyzeImages ==
    {Img(fs, d, lv, br) :
        fs \in FaceLists, d \in Dims, lv \in LaplacianVals, br \in BrightnessVals}

\* photos for the swap and the selector: no face, 90.0, 90.0 with two faces, 40.0
PhotoNoFace == Img(<<>>, <<1024, 1024>>, 300, 100)
Photo90 == Img(<<Face(1000, PoseArray(0), <<100, 50, 600, 450>>)>>, <<1024, 1024>>, 300, 61)
Photo90b ==
    Img(<<Face(1000, PoseAbsent, <<0, 0, 500, 300>>), ExtraFace>>, <<1000, 1000>>, 400, 100)
Photo40 == Img(<<Face(300, PoseArray(-200), <<0, 0, 50, 50>>)>>, <<640, 480>>, 300, 200)

Photos == {PhotoNoFace, Photo90, Photo90b, Photo40}

SelectPhotos == {PhotoNoFace, Photo90, Photo40}

Answers(images) == {NetError, NetBytes(NoImage)} \cup {NetBytes(i) : i \in images}

Urls == {"u1", "u2", "u3"}

UrlLists == UNION {[1..n -> Urls] : n \in 0..MaxUrls}

AnalyzeRequests ==
    {[op |-> "analyze", body |-> [has_url |-> FALSE], net |-> <<>>]}
    \cup {[op |-> "analyze", body |-> [has_url |-> TRUE, image_url |-> "u1"], net |-> <<a>>] :
             a \in Answers(AnalyzeImages)}

SelectBodies ==
    {[kind |-> "null", has_key |-> FALSE, value |-> [type |-> "none", items |-> <<>>]],
     [kind |-> "object", has_key |-> FALSE, value |-> [type |-> "none", items |-> <<>>]],
     [kind |-> "array", has_key |-> FALSE, value |-> [type |-> "none", items |-> <<>>]],
     [kind |-> "array", has_key |-> TRUE, value |-> [type |-> "none", items |-> <<>>]],
     [kind |-> "object", has_key |-> TRUE, value |-> [type |-> "str", items |-> <<>>]],
     [kind |-> "object", has_key |-> TRUE, value |-> [type |-> "str", items |-> <<"u", "1">>]]}
    \cup {[kind |-> "object", has_key |-> TRUE, value |-> [type |-> "list", items |-> l]] :
             l \in UrlLists}

\* one network answer for each item the loop could ask for
SelectAnswers(body) == [1..Len(body.value.items) -> Answers(SelectPhotos)]

SelectRequest(body, net) == [op |-> "select", body |-> body, net |-> net]

SwapRequests ==
    {[op |-> "swap", body |-> [has_urls |-> FALSE], net |-> <<>>,
      swapper_ok |-> TRUE, encode_ok |-> TRUE]}
    \cup {[op |-> "swap", body |-> [has_urls |-> TRUE, target_url |-> "u1", source_url |-> "u2"],
           net |-> <<t, src>>, swapper_ok |-> sw, encode_ok |-> en] :
             t \in Answers(Photos), src \in Answers(Photos), sw \in BOOLEAN, en \in BOOLEAN}

----------------------------------------------------------------------------
(* The serving process *)

analyze_photo_endpoint ==
    /\ pc = "serving"
    /\ request = NoRequest
    /\ \E req \in AnalyzeRequests :
        /\ request' = req
        /\ response' = analyze_photo_response(req)
        /\ collected' = <<>>
        /\ fetchLog' = analyze_photo_fetches(req)
        /\ detectLog' = analyze_photo_detections(req)
        /\ swapLog' = <<>>
    /\ UNCHANGED bootVars

swap_face_endpoint ==
    /\ pc = "serving"
    /\ request = NoRequest
    /\ \E req \in SwapRequests :
        /\ request' = req
        /\ response' = swap_face_response(req)
        /\ collected' = <<>>
        /\ fetchLog' = swap_face_fetches(req)
        /\ detectLog' = swap_face_detections(req)
        /\ swapLog' = swap_face_swaps(req)
    /\ UNCHANGED bootVars

select_best_photo_endpoint ==
    /\ pc = "serving"
    /\ request = NoRequest
    /\ \E body \in SelectBodies : \E net \in SelectAnswers(body) :
        LET req == SelectRequest(body, net)
        IN /\ request' = req
           /\ response' = select_best_photo_response(req)
           /\ collected' = select_best_photo_collected(req)
           /\ fetchLog' = select_best_photo_fetches(req)
           /\ detectLog' = select_best_photo_detections(req)
           /\ swapLog' = <<>>
    /\ UNCHANGED bootVars

\* the response is out; the worker takes the next request
request_done ==
    /\ request # NoRequest
    /\ request' = NoRequest
    /\ response' = NoResponse
    /\ collected' = <<>>
    /\ fetchLog' = <<>>
    /\ detectLog' = <<>>
    /\ swapLog' = <<>>
    /\ UNCHANGED bootVars

\* the handles a serving process can hold (the outcomes of SpecBoot)
ServingHandles == {<<None, None>>, <<Model, None>>, <<Model, Model>>}

InitServe ==
    /\ \E h \in ServingHandles : face_analyzer = h[1] /\ face_swapper = h[2]
    /\ file = IF face_swapper = Model THEN "complete" ELSE "absent"
    /\ pc = "serving"
    /\ mode = "wsgi"
    /\ mirror = 0
    /\ downloaded = FALSE
    /\ tried = <<>>
    /\ checked = "unchecked"
    /\ returns = <<face_swapper = Model>>
    /\ runs = 1
    /\ health = NoResponse
    /\ ServeIdle

NextServe ==
    \/ analyze_photo_endpoint
    \/ swap_face_endpoint
    \/ select_best_photo_endpoint
    \/ request_done

SpecServe == InitServe /\ [][NextServe]_vars

----------------------------------------------------------------------------
(* Properties of the request handlers *)

\* the fetch of this answer succeeded: a 2xx body that decodes
FetchOk(answer) == answer.kind = "bytes" /\ answer.image.decoded

Selecting == request.op = "select"

Selected == Selecting /\ response.status = 200

\* image_urls is a non-empty list
ValidList(body) ==
    /\ body.kind = "object"
    /\ body.has_key
    /\ body.value.type = "list"
    /\ Len(body.value.items) > 0

ScoreInRange(report) ==
    /\ report.score >= 0
    /\ report.score <= 1000
    /\ ~report.face_detected => report.score = 0

\* C1: the score of every report analyze_face_quality returns lies in
\* [0, 100] (0..1000 tenths), for every image and first face with a
\* confidence in [0, 1]; the no-face report and the report of a caught
\* exception have score 0.
C1_ScoreInRange ==
    /\ (request.op = "analyze" /\ response.status = 200) => ScoreInRange(response.data)
    /\ \A i \in DOMAIN collected : ScoreInRange(collected[i])

\* a photo at the maximum of every band scores 100.0
C1_Witness ==
    /\ request.op = "analyze"
    /\ response.status = 200
    /\ response.data.face_detected
    /\ response.data.score = 1000
    /\ request.net[1].image.laplacian_var > 500

\* C2 as stated: primary is the URL of a report with a detected face whose
\* score is the maximum among the reports with a detected face, also when
\* no collected report has a detected face.
C2_PrimaryHasFace ==
    Selected =>
        \E i \in DOMAIN collected :
            /\ collected[i].url = response.data.primary
            /\ collected[i].face_detected
            /\ \A j \in DOMAIN collected :
                   collected[j].face_detected => collected[j].score <= collected[i].score

\* C2 amended: primary is the URL of a report whose score is the maximum
\* among all collected reports; it is a report with a detected face whenever
\* some collected report has a detected face.
C2_PrimaryHasMaxScore ==
    Selected =>
        \E i \in DOMAIN collected :
            /\ collected[i].url = response.data.primary
            /\ \A j \in DOMAIN collected : collected[j].score <= collected[i].score
            /\ (\E j \in DOMAIN collected : collected[j].face_detected)
                   => collected[i].face_detected

\* a faceless photo and a lower scoring face come first in the list
C2_Witness ==
    /\ Selected
    /\ Len(collected) = 3
    /\ ~collected[1].face_detected
    /\ collected[2].score = 400
    /\ collected[3].score = 900
    /\ response.data.primary = collected[3].url

NoRepeats(s) == \A i, j \in DOMAIN s : i # j => s[i] # s[j]

\* C3: fallbacks has at most two entries, does not contain primary and
\* contains no URL twice, for any input list.
C3_FallbacksDistinct ==
    Selected =>
        /\ Len(response.data.fallbacks) <= 2
        /\ \A i \in DOMAIN response.data.fallbacks :
               response.data.fallbacks[i] # response.data.primary
        /\ NoRepeats(response.data.fallbacks)

\* p lists the positions of before in the order of after, equal scores in
\* their order of before
StableDescending(before, after, p) ==
    /\ \A i, j \in DOMAIN p : i # j => p[i] # p[j]
    /\ \A i \in DOMAIN after : after[i] = before[p[i]]
    /\ \A i, j \in DOMAIN after :
           i < j => \/ after[i].score > after[j].score
                    \/ after[i].score = after[j].score /\ p[i] < p[j]

\* C4: scores is the collected reports in descending order of score, equal
\* scores in input order; primary is the URL at rank 1 and fallbacks are the
\* URLs at ranks 2 and 3, as far as present.
C4_StableRanking ==
    Selected =>
        LET scores == response.data.scores
            n == Len(collected)
        IN /\ Len(scores) = n
           /\ \E p \in [1..n -> 1..n] : StableDescending(collected, scores, p)
           /\ response.data.primary = scores[1].url
           /\ Len(response.data.fallbacks) = Min(n, 3) - 1
           /\ \A i \in DOMAIN response.data.fallbacks :
                  response.data.fallbacks[i] = scores[i + 1].url

\* two reports of equal score, of different URLs, behind a lower one
C4_Witness ==
    /\ Selected
    /\ Len(collected) = 3
    /\ collected[1].score < collected[2].score
    /\ collected[2].score = collected[3].score
    /\ collected[2] # collected[3]
    /\ response.data.scores = <<collected[2], collected[3], collected[1]>>

\* f picks, in order, the positions of the list whose fetch succeeded
PicksFetched(net, f) ==
    /\ \A k, l \in DOMAIN f : k < l => f[k] < f[l]
    /\ \A i \in DOMAIN net : FetchOk(net[i]) <=> \E k \in DOMAIN f : f[k] = i

\* C5: for a non-empty list, one report is collected for each URL whose
\* fetch succeeded, face or no face, and none for the others; the request
\* fails with 400 'No valid images found' exactly if every fetch failed.
\* Three URLs with one failed fetch and scores 90 and 40 give the 90 scorer
\* as primary and the 40 scorer as the only fallback.
C5_OneReportPerFetched ==
    (Selecting /\ ValidList(request.body)) =>
        LET urls == request.body.value.items
            net == request.net
        IN /\ \E f \in [1..Len(collected) -> 1..Len(urls)] :
                  /\ PicksFetched(net, f)
                  /\ \A k \in DOMAIN f :
                         /\ collected[k].url = urls[f[k]]
                         /\ net[f[k]].image.faces = <<>> =>
                                (collected[k].score = 0 /\ ~collected[k].face_detected)
           /\ response = ErrorResponse(400, "No valid images found")
                  <=> \A i \in DOMAIN net : ~FetchOk(net[i])
           /\ response.status \in {200, 400}
           /\ (Len(urls) = 3 /\ Len(collected) = 2
                  /\ {collected[1].score, collected[2].score} = {900, 400}) =>
                  \E k \in 1..2 :
                      /\ collected[k].score = 900
                      /\ response.data.primary = collected[k].url
                      /\ response.data.fallbacks = <<collected[3 - k].url>>

\* the first fetch fails, the second photo scores 40, the third 90
C5_Witness ==
    /\ Selected
    /\ Len(request.body.value.items) = 3
    /\ ~FetchOk(request.net[1])
    /\ Len(collected) = 2
    /\ collected[1].score = 400
    /\ collected[2].score = 900
    /\ response.data.primary = request.body.value.items[3]
    /\ response.data.fallbacks = <<request.body.value.items[2]>>

\* image_urls is missing, is not a list, or is the empty list
InvalidSelectBody(body) ==
    \/ body.kind = "null"
    \/ ~body.has_key
    \/ body.kind = "object" /\ (body.value.type # "list" \/ Len(body.value.items) = 0)

Swapping ==
    /\ request.op = "swap"
    /\ request.body.has_urls
    /\ FetchOk(request.net[1])
    /\ FetchOk(request.net[2])

\* C9: with the detector loaded, swap_face runs detection on the target and
\* on the source image; if either has no face the request fails with HTTP 500
\* and the swap model is not invoked; otherwise the loaded swap model is
\* invoked exactly once, with the target image, the first target face, the
\* first source face and paste_back.  It is never invoked more than once,
\* and not at all when detection raises.
C9_SwapOnFirstFaces ==
    Swapping =>
        LET target == request.net[1].image
            source == request.net[2].image
        IN /\ face_analyzer # None => detectLog = <<target, source>>
           /\ (face_analyzer # None /\ (target.faces = <<>> \/ source.faces = <<>>)) =>
                  /\ swapLog = <<>>
                  /\ response.status = 500
           /\ (face_analyzer # None /\ face_swapper # None
                  /\ target.faces # <<>> /\ source.faces # <<>>) =>
                  swapLog = <<[image |-> target, target_face |-> target.faces[1],
                               source_face |-> source.faces[1], paste_back |-> TRUE]>>
           /\ Len(swapLog) <= 1
           /\ face_analyzer = None => (detectLog = <<>> /\ swapLog = <<>> /\ response.status = 500)
           /\ response.status = 200 => (swapLog # <<>> /\ response.image.call = swapLog[1])

\* a target with two faces and a source with another face, swapped and sent
C9_Witness ==
    /\ Swapping
    /\ Len(swapLog) = 1
    /\ Len(request.net[1].image.faces) = 2
    /\ request.net[1].image.faces[1] # request.net[2].image.faces[1]
    /\ response.status = 200

====
